---- MODULE Spec2Model ----
(***************************************************************************)
(* Virtual-Network-Simulation: the node runtime (VirtualNode), its chunked *)
(* FTP transfer (VirtualNetwork.send_file) and the receiving FTP handler   *)
(* (CustomFTPHandler.on_file_received).                                    *)
(*                                                                         *)
(* Byte strings are kept run-length encoded: a sequence of runs            *)
(* [b |-> byte, n |-> count] in which neighbouring runs differ.  Files of  *)
(* the simulation hold NUL bytes only, frames hold a short textual header  *)
(* followed by NUL bytes, so sizes of hundreds of megabytes stay small.    *)
(***************************************************************************)
EXTENDS Integers, Sequences, FiniteSets, TLC

\* ------------------------------------------------------------------ bounds
\* Largest value execute_instruction may store into memory["result"].
MaxVal == 4
\* Number of send calls that may pass the admission check in one behaviour.
MaxSends == 1
\* The same, where one sender sends its files one after the other.
MaxSeqSends == 2
\* Number of frames the FTP client that is no node may upload in one behaviour.
MaxUploads == 5
\* File lengths 0..MaxLen, and the same offsets above LongBase, are sent end to end.
MaxLen == 23

\* --------------------------------------------------------------- constants
MiB == 1024 * 1024
\* VirtualNode.total_storage
total_storage == 1024 * MiB
\* the capacity VirtualNetwork.send_file passes to check_target_storage
target_total_storage == 1024 * MiB
\* VirtualNetwork.num_chunks
num_chunks == 5
\* CustomFTPHandler.expected_chunks
expected_chunks == 5
\* VirtualNetwork.header_size
header_size == 16

None == "None"
NUL == "NUL"
LF == "LF"

\* VirtualNetwork.ip_map / VirtualNode.ip_map
ip_map == {"192.168.1.1", "192.168.1.2", "192.168.1.3"}
\* the nodes that are constructed (one process each)
Nodes == {"192.168.1.1", "192.168.1.2"}
\* addresses a caller may name as the target of send
Targets == ip_map \cup {"10.0.0.9"}
Files == {"a.bin", "b.bin"}
\* an FTP client that is no node: it logs in with the shared user/password
Client == "client"
\* whoever may hold an upload connection to a node's FTP server
Clients == Nodes \cup {Client}

\* ------------------------------------------------------------ byte strings
Bytes(b, n) == IF n <= 0 THEN <<>> ELSE <<[b |-> b, n |-> n]>>

Concat(x, y) ==
    IF x = <<>> THEN y
    ELSE IF y = <<>> THEN x
    ELSE IF x[Len(x)].b = y[1].b
         THEN SubSeq(x, 1, Len(x) - 1)
                \o <<[b |-> y[1].b, n |-> x[Len(x)].n + y[1].n]>>
                \o Tail(y)
         ELSE x \o y

RECURSIVE ByteLen(_)
ByteLen(x) == IF x = <<>> THEN 0 ELSE x[1].n + ByteLen(Tail(x))

\* the byte at position i (1-based), None past the end
RECURSIVE ByteAt(_, _)
ByteAt(x, i) ==
    IF x = <<>> THEN None
    ELSE IF i <= x[1].n THEN x[1].b
    ELSE ByteAt(Tail(x), i - x[1].n)

\* data[k:]
RECURSIVE DropBytes(_, _)
DropBytes(x, k) ==
    IF x = <<>> \/ k <= 0 THEN x
    ELSE IF k < x[1].n THEN <<[b |-> x[1].b, n |-> x[1].n - k]>> \o Tail(x)
    ELSE DropBytes(Tail(x), k - x[1].n)

\* str.encode() of a text given as a sequence of characters
RECURSIVE Encode(_)
Encode(s) == IF s = <<>> THEN <<>> ELSE Concat(Bytes(s[1], 1), Encode(Tail(s)))

\* bytes.ljust(width, fill): pads on the right, never truncates
LJust(x, width, fill) ==
    IF ByteLen(x) >= width THEN x ELSE Concat(x, Bytes(fill, width - ByteLen(x)))

DigitChar == <<"0", "1", "2", "3", "4", "5", "6", "7", "8", "9">>
IsDigit(c) == \E d \in 1..10 : DigitChar[d] = c
DigitVal(c) == (CHOOSE d \in 1..10 : DigitChar[d] = c) - 1

\* str(n) for n >= 0
RECURSIVE IntToStr(_)
IntToStr(n) ==
    IF n < 10 THEN <<DigitChar[n + 1]>>
    ELSE IntToStr(n \div 10) \o <<DigitChar[(n % 10) + 1]>>

\* Zero-valued file content: b"\0" * size
Zeros(size) == Bytes(NUL, size)

\* ------------------------------------------------------------------ frames
\* math.ceil(size / num_chunks)
ChunkSize(size) == (size + num_chunks - 1) \div num_chunks

Min(a, b) == IF a <= b THEN a ELSE b

\* f"CHUNK:{chunk_count}:{current_chunk_size}\n".encode().ljust(header_size, b'\0')
MakeHeader(chunk_count, current_chunk_size) ==
    LJust(Encode(<<"C", "H", "U", "N", "K", ":">> \o IntToStr(chunk_count)
                 \o <<":">> \o IntToStr(current_chunk_size) \o <<LF>>),
          header_size, NUL)

\* chunk_with_header = header + chunk
MakeFrame(chunk_count, current_chunk_size) ==
    Concat(MakeHeader(chunk_count, current_chunk_size), Zeros(current_chunk_size))

\* (\d+) starting at position p: [ok, val, next]
RECURSIVE ScanDigits(_, _, _, _)
ScanDigits(data, p, acc, seen) ==
    IF IsDigit(ByteAt(data, p))
    THEN ScanDigits(data, p + 1, acc * 10 + DigitVal(ByteAt(data, p)), TRUE)
    ELSE [ok |-> seen, val |-> acc, next |-> p]

\* re.compile(b"CHUNK:(\d+):(\d+)\n").match(data): [ok, chunk_number, chunk_size, end]
\* where end counts the bytes matched (match.end()).
HeaderMatch(data) ==
    LET NoMatch == [ok |-> FALSE, chunk_number |-> 0, chunk_size |-> 0, end |-> 0]
        lit == <<"C", "H", "U", "N", "K", ":">>
    IN  IF \E i \in 1..6 : ByteAt(data, i) # lit[i] THEN NoMatch
        ELSE LET g1 == ScanDigits(data, 7, 0, FALSE)
             IN  IF ~g1.ok \/ ByteAt(data, g1.next) # ":" THEN NoMatch
                 ELSE LET g2 == ScanDigits(data, g1.next + 1, 0, FALSE)
                      IN  IF ~g2.ok \/ ByteAt(data, g2.next) # LF THEN NoMatch
                          ELSE [ok |-> TRUE, chunk_number |-> g1.val,
                                chunk_size |-> g2.val, end |-> g2.next]

\* ------------------------------------------------------------------- state
VARIABLES
    is_running,     \* VirtualNode.is_running, per node
    ftp_servers,    \* per node: VirtualNetwork.ftp_servers holds the node's listener
    virtual_disk,   \* VirtualNode.virtual_disk, per node: filename -> size
    memory,         \* VirtualNode.memory, per node: variable -> integer
    metadata,       \* content of disk_metadata.json, per node
    storage,        \* files of disk_path other than disk_metadata.json: name -> bytes
    snd,            \* per node: the send_file call the node's command path is inside
    conn,           \* per client: the CustomFTPHandler serving its upload connection
    last,           \* the step taken last and what it returned to its caller
    admitted,       \* number of send calls that passed the admission check so far
    uploads         \* number of frames the client that is no node has uploaded so far

vars == <<is_running, ftp_servers, virtual_disk, memory, metadata, storage, snd, conn,
          last, admitted, uploads>>

Empty == [x \in {} |-> 0]
Put(d, k, v) == [x \in (DOMAIN d) \cup {k} |-> IF x = k THEN v ELSE d[x]]
Remove(d, k) == [x \in (DOMAIN d) \ {k} |-> d[x]]

RECURSIVE SumOver(_, _)
SumOver(d, S) ==
    IF S = {} THEN 0
    ELSE LET k == CHOOSE x \in S : TRUE IN d[k] + SumOver(d, S \ {k})

\* sum(self.virtual_disk.values())
DiskSum(d) == SumOver(d, DOMAIN d)

\* os.path.join(dirname, f"temp_{filename}")
TempName(filename) == "temp_" \o filename

Idle == [pc |-> "idle", filename |-> None, target |-> None, size |-> 0,
         chunk_count |-> 0, sent_bytes |-> 0]
NoConn == [target |-> None, current_filename |-> None, received_chunks |-> 0,
           temp_file_path |-> None, pending |-> None]
\* CustomFTPHandler.__init__ for a connection to target
NewHandler(target) == [target |-> target, current_filename |-> None, received_chunks |-> 0,
                       temp_file_path |-> None, pending |-> None]

Result(node, op, file, size, target, res) ==
    [node |-> node, op |-> op, file |-> file, size |-> size, target |-> target, res |-> res]

\* VirtualNode._initialize_disk: the persisted metadata md, with every file
\* found in disk_path recorded at its actual size
_initialize_disk(md, files) ==
    [f \in (DOMAIN md) \cup (DOMAIN files) |->
        IF f \in DOMAIN files THEN ByteLen(files[f]) ELSE md[f]]

\* VirtualNode.__init__ of every node over the files found in its disk_path:
\* _initialize_disk, start_ftp_server, start
InitOver(files) ==
    /\ is_running = [n \in Nodes |-> TRUE]
    /\ ftp_servers = [n \in Nodes |-> TRUE]
    /\ virtual_disk = [n \in Nodes |-> _initialize_disk(Empty, files[n])]
    /\ memory = [n \in Nodes |-> Empty]
    /\ metadata = [n \in Nodes |-> _initialize_disk(Empty, files[n])]
    /\ storage = files
    /\ snd = [n \in Nodes |-> Idle]
    /\ conn = [c \in Clients |-> NoConn]
    /\ last = Result(None, "init", None, 0, None, None)
    /\ admitted = 0
    /\ uploads = 0

\* every node is constructed over an empty disk_path
Init == InitOver([n \in Nodes |-> Empty])

\* The command loop of a node takes one command at a time; send blocks it.
CanCommand(n) == snd[n].pc = "idle"

\* a check that also reserves room for the transfers admitted towards the node
_check_storage_reserving(n, size) ==
    DiskSum(virtual_disk[n]) + size
      + SumOver([m \in Nodes |-> IF snd[m].pc # "idle" /\ snd[m].target = n
                                 THEN snd[m].size ELSE 0], Nodes) <= total_storage

\* VirtualNode._check_storage
_check_storage(n, size) == DiskSum(virtual_disk[n]) + size <= total_storage

\* ---------------------------------------------------------------- lifecycle
start(n) ==
    /\ CanCommand(n)
    /\ IF is_running[n]
       THEN /\ last' = Result(n, "start", None, 0, None, "AlreadyRunning")
            /\ UNCHANGED is_running
       ELSE /\ is_running' = [is_running EXCEPT ![n] = TRUE]
            /\ last' = Result(n, "start", None, 0, None, "Started")
    /\ UNCHANGED <<ftp_servers, virtual_disk, memory, metadata, storage, snd, conn, admitted, uploads>>

\* a stop that persists the disk but leaves the FTP server running
stop_keeps_listener(n) ==
    /\ CanCommand(n)
    /\ IF ~is_running[n]
       THEN /\ last' = Result(n, "stop", None, 0, None, "AlreadyStopped")
            /\ UNCHANGED <<is_running, metadata, ftp_servers>>
       ELSE /\ is_running' = [is_running EXCEPT ![n] = FALSE]
            /\ metadata' = [metadata EXCEPT ![n] = virtual_disk[n]]
            /\ UNCHANGED ftp_servers
            /\ last' = Result(n, "stop", None, 0, None, "Stopped")
    /\ UNCHANGED <<virtual_disk, memory, storage, snd, conn, admitted, uploads>>

\* stop: _save_disk, then VirtualNetwork.stop_ftp_server
stop(n) ==
    /\ CanCommand(n)
    /\ IF ~is_running[n]
       THEN /\ last' = Result(n, "stop", None, 0, None, "AlreadyStopped")
            /\ UNCHANGED <<is_running, metadata, ftp_servers>>
       ELSE /\ is_running' = [is_running EXCEPT ![n] = FALSE]
            /\ metadata' = [metadata EXCEPT ![n] = virtual_disk[n]]
            /\ ftp_servers' = [ftp_servers EXCEPT ![n] = FALSE]
            /\ last' = Result(n, "stop", None, 0, None, "Stopped")
    /\ UNCHANGED <<virtual_disk, memory, storage, snd, conn, admitted, uploads>>

\* --------------------------------------------------------------- disk ops
\* an ls without the is_running check
ls_unchecked(n) ==
    /\ CanCommand(n)
    /\ last' = Result(n, "ls", None, 0, None,
                      IF DOMAIN virtual_disk[n] = {} THEN "DirectoryEmpty" ELSE "Listing")
    /\ UNCHANGED <<is_running, ftp_servers, virtual_disk, memory, metadata, storage, snd, conn, admitted, uploads>>

ls(n) ==
    /\ CanCommand(n)
    /\ last' = Result(n, "ls", None, 0, None,
                      IF ~is_running[n] THEN "NotRunning"
                      ELSE IF DOMAIN virtual_disk[n] = {} THEN "DirectoryEmpty"
                      ELSE "Listing")
    /\ UNCHANGED <<is_running, ftp_servers, virtual_disk, memory, metadata, storage, snd, conn, admitted, uploads>>

touch(n, filename, size) ==
    /\ CanCommand(n)
    /\ IF ~is_running[n]
       THEN /\ last' = Result(n, "touch", filename, size, None, "NotRunning")
            /\ UNCHANGED <<virtual_disk, metadata, storage>>
       ELSE IF size < 0
       THEN /\ last' = Result(n, "touch", filename, size, None, "NegativeSize")
            /\ UNCHANGED <<virtual_disk, metadata, storage>>
       ELSE IF filename \notin DOMAIN virtual_disk[n]
       THEN IF ~_check_storage(n, size * MiB)
            THEN /\ last' = Result(n, "touch", filename, size, None, "NotEnoughStorage")
                 /\ UNCHANGED <<virtual_disk, metadata, storage>>
            ELSE /\ storage' = [storage EXCEPT ![n] = Put(@, filename, Zeros(size))]
                 /\ virtual_disk' = [virtual_disk EXCEPT ![n] = Put(@, filename, size)]
                 /\ metadata' = [metadata EXCEPT ![n] = Put(virtual_disk[n], filename, size)]
                 /\ last' = Result(n, "touch", filename, size, None, "Created")
       ELSE \* os.utime raises FileNotFoundError when the backing file is absent
            /\ last' = Result(n, "touch", filename, size, None,
                              IF filename \in DOMAIN storage[n] THEN "UpdatedTimestamp"
                              ELSE "Raised")
            /\ UNCHANGED <<virtual_disk, metadata, storage>>
    /\ UNCHANGED <<is_running, ftp_servers, memory, snd, conn, admitted, uploads>>

trunc(n, filename, size) ==
    /\ CanCommand(n)
    /\ IF ~is_running[n]
       THEN /\ last' = Result(n, "trunc", filename, size, None, "NotRunning")
            /\ UNCHANGED <<virtual_disk, metadata, storage>>
       ELSE IF size < 0
       THEN /\ last' = Result(n, "trunc", filename, size, None, "NegativeSize")
            /\ UNCHANGED <<virtual_disk, metadata, storage>>
       ELSE IF filename \in DOMAIN virtual_disk[n]
       THEN IF ~_check_storage(n, size - virtual_disk[n][filename])
            THEN /\ last' = Result(n, "trunc", filename, size, None, "NotEnoughStorage")
                 /\ UNCHANGED <<virtual_disk, metadata, storage>>
            ELSE /\ storage' = [storage EXCEPT ![n] = Put(@, filename, Zeros(size))]
                 /\ virtual_disk' = [virtual_disk EXCEPT ![n] = Put(@, filename, size)]
                 /\ metadata' = [metadata EXCEPT ![n] = Put(virtual_disk[n], filename, size)]
                 /\ last' = Result(n, "trunc", filename, size, None, "Truncated")
       ELSE /\ last' = Result(n, "trunc", filename, size, None, "FileDoesNotExist")
            /\ UNCHANGED <<virtual_disk, metadata, storage>>
    /\ UNCHANGED <<is_running, ftp_servers, memory, snd, conn, admitted, uploads>>

\* ------------------------------------------------------------- memory ops
\* int(value) for a string given as a sequence of characters: an optional
\* sign followed by decimal digits; anything else raises ValueError.
RECURSIVE DigitsVal(_, _)
DigitsVal(s, acc) ==
    IF s = <<>> THEN acc ELSE DigitsVal(Tail(s), acc * 10 + DigitVal(s[1]))

PyInt(s) ==
    LET body == IF s # <<>> /\ s[1] \in {"-", "+"} THEN Tail(s) ELSE s
    IN  IF body = <<>> \/ \E i \in 1..Len(body) : ~IsDigit(body[i])
        THEN [ok |-> FALSE, val |-> 0]
        ELSE [ok |-> TRUE,
              val |-> IF s[1] = "-" THEN 0 - DigitsVal(body, 0) ELSE DigitsVal(body, 0)]

Upper == <<"A", "B", "C", "D", "E", "F", "G", "H", "I", "J", "K", "L", "M",
           "N", "O", "P", "Q", "R", "S", "T", "U", "V", "W", "X", "Y", "Z">>
Lower == <<"a", "b", "c", "d", "e", "f", "g", "h", "i", "j", "k", "l", "m",
           "n", "o", "p", "q", "r", "s", "t", "u", "v", "w", "x", "y", "z">>
\* a lower() that leaves every letter as it is
StrLower_identity(s) == s

\* str.lower()
StrLower(s) ==
    [i \in 1..Len(s) |->
        IF \E k \in 1..26 : Upper[k] = s[i]
        THEN Lower[CHOOSE k \in 1..26 : Upper[k] = s[i]]
        ELSE s[i]]

ResultVar == <<"r", "e", "s", "u", "l", "t">>

set_var(n, var_name, value) ==
    /\ CanCommand(n)
    /\ IF ~is_running[n]
       THEN /\ last' = Result(n, "set_var", var_name, 0, None, "NotRunning")
            /\ UNCHANGED memory
       ELSE IF ~PyInt(value).ok
       THEN /\ last' = Result(n, "set_var", var_name, 0, None, "ValueMustBeInteger")
            /\ UNCHANGED memory
       ELSE /\ memory' = [memory EXCEPT ![n] = Put(@, var_name, PyInt(value).val)]
            /\ last' = Result(n, "set_var", var_name, PyInt(value).val, None, "Set")
    /\ UNCHANGED <<is_running, ftp_servers, virtual_disk, metadata, storage, snd, conn, admitted, uploads>>

get_var(n, var_name) ==
    /\ CanCommand(n)
    /\ last' = IF ~is_running[n] THEN Result(n, "get_var", var_name, 0, None, "NotRunning")
               ELSE IF var_name \in DOMAIN memory[n]
               THEN Result(n, "get_var", var_name, memory[n][var_name], None, "Value")
               ELSE Result(n, "get_var", var_name, 0, None, "VariableNotFound")
    /\ UNCHANGED <<is_running, ftp_servers, virtual_disk, memory, metadata, storage, snd, conn, admitted, uploads>>

\* instruction.strip().split() is given as parts, a sequence of words
execute_instruction(n, parts) ==
    /\ CanCommand(n)
    /\ IF ~is_running[n]
       THEN /\ last' = Result(n, "execute", parts, 0, None, "NotRunning")
            /\ UNCHANGED memory
       ELSE IF parts = <<>>
       THEN /\ last' = Result(n, "execute", parts, 0, None, "NoInstruction")
            /\ UNCHANGED memory
       ELSE IF StrLower(parts[1]) # <<"a", "d", "d">>
       THEN /\ last' = Result(n, "execute", parts, 0, None, "UnknownInstruction")
            /\ UNCHANGED memory
       ELSE IF Len(parts) # 3
       THEN /\ last' = Result(n, "execute", parts, 0, None, "Usage")
            /\ UNCHANGED memory
       ELSE IF parts[2] \in DOMAIN memory[n] /\ parts[3] \in DOMAIN memory[n]
       THEN LET result == memory[n][parts[2]] + memory[n][parts[3]]
            IN  /\ result <= MaxVal
                /\ memory' = [memory EXCEPT ![n] = Put(@, ResultVar, result)]
                /\ last' = Result(n, "execute", parts, result, None, "Added")
       ELSE /\ last' = Result(n, "execute", parts, 0, None, "VariablesNotFound")
            /\ UNCHANGED memory
    /\ UNCHANGED <<is_running, ftp_servers, virtual_disk, metadata, storage, snd, conn, admitted, uploads>>

\* ---------------------------------------------------------------- receiver
\* CustomFTPHandler.on_file_received(file_path) on the handler h of a node whose
\* storage root is st, virtual_disk vd and metadata md; file is the basename of
\* file_path.  Yields the handler, storage, disk and metadata it leaves.
OnFileReceived(h, st, vd, md, file) ==
    LET Out(h1, st1, vd1, md1, res) ==
            [h |-> h1, st |-> st1, vd |-> vd1, md |-> md1, res |-> res]
    IN
    IF file \notin DOMAIN st
    THEN Out(h, st, vd, md, "Raised")                 \* open(file_path, 'rb') fails
    ELSE
    LET data == st[file]
        match == HeaderMatch(data)
        payload == DropBytes(data, match.end)
        temp == TempName(file)
    IN
    IF ~match.ok THEN Out(h, st, vd, md, "InvalidHeader")
    ELSE IF ByteLen(payload) # match.chunk_size THEN Out(h, st, vd, md, "SizeMismatch")
    ELSE IF match.chunk_number # 1 /\ file # h.current_filename
    THEN Out(h, st, vd, md, "FilenameMismatch")
    ELSE IF match.chunk_number # 1 /\ match.chunk_number # h.received_chunks + 1
    THEN Out(h, st, vd, md, "OutOfOrder")
    ELSE
    LET h1 == IF match.chunk_number = 1
              THEN [h EXCEPT !.current_filename = file, !.received_chunks = 1,
                             !.temp_file_path = temp]
              ELSE [h EXCEPT !.received_chunks = @ + 1]
        st1 == IF match.chunk_number = 1
               THEN Put(st, temp, payload)                          \* open 'wb'
               ELSE Put(st, h.temp_file_path,                       \* open 'ab'
                        Concat(IF h.temp_file_path \in DOMAIN st
                               THEN st[h.temp_file_path] ELSE <<>>, payload))
    IN
    IF h1.received_chunks = expected_chunks
    THEN \* os.rename(temp_file_path, final_path); final_path is file_path itself
         LET st2 == Put(Remove(st1, h1.temp_file_path), file, st1[h1.temp_file_path])
             size == ByteLen(st2[file])
             vd1 == Put(vd, file, size)
             h2 == [h1 EXCEPT !.current_filename = None, !.received_chunks = 0,
                              !.temp_file_path = None]
         IN  Out(h2, Remove(st2, file), vd1, vd1, "Finalized")     \* os.remove(file_path)
    ELSE Out(h1, Remove(st1, file), vd, md, "Accepted")            \* os.remove(file_path)

\* The transport calls on_file_received once the upload of conn[c].pending is complete.
on_file_received(c) ==
    /\ conn[c].pending # None
    /\ LET t == conn[c].target
           r == OnFileReceived(conn[c], storage[t], virtual_disk[t], metadata[t],
                               conn[c].pending)
       IN  /\ conn' = [conn EXCEPT ![c] = [r.h EXCEPT !.pending = None]]
           /\ storage' = [storage EXCEPT ![t] = r.st]
           /\ virtual_disk' = [virtual_disk EXCEPT ![t] = r.vd]
           /\ metadata' = [metadata EXCEPT ![t] = r.md]
           /\ last' = Result(t, "on_file_received", conn[c].pending, 0, c, r.res)
    /\ UNCHANGED <<is_running, ftp_servers, memory, snd, admitted, uploads>>

\* ------------------------------------------------------------------ sender
\* a client can connect to target_ip's FTP port
Listening(t) == t \in Nodes /\ ftp_servers[t]

\* a usage taken from the target's VirtualDisk instead of the listing
UsedStorage_from_disk(t) == DiskSum(virtual_disk[t])

\* ftp.dir(): the regular files of the target's storage root with their sizes,
\* summed without disk_metadata.json
UsedStorage(t) == SumOver([x \in DOMAIN storage[t] |-> ByteLen(storage[t][x])],
                          DOMAIN storage[t])

\* VirtualNetwork.check_target_storage
check_target_storage(target_ip, size, total) ==
    IF target_ip \notin ip_map THEN "TargetNotFound"
    ELSE IF ~Listening(target_ip) THEN "ErrorCheckingStorage"
    ELSE IF UsedStorage(target_ip) + size <= total THEN "ok"
    ELSE "NotEnoughStorageOnTarget"

\* a listing that never reports the uploaded files
Nlst_skipped(t) == {"disk_metadata.json"}

\* ftp.nlst()
Nlst(t) == (DOMAIN storage[t]) \cup {"disk_metadata.json"}

\* the checks in the order of node3.py's send: the file before the target
send_file_checks_file_first(source_ip, target_ip, filename) ==
    IF filename \notin DOMAIN virtual_disk[source_ip] THEN "FileDoesNotExist"
    ELSE IF target_ip \notin ip_map THEN "TargetNotFound"
    ELSE IF source_ip = target_ip THEN "SelfTarget"
    ELSE check_target_storage(target_ip, virtual_disk[source_ip][filename],
                              target_total_storage)

\* send_file up to the admission check: "ok" or the error it returns
send_file_checks(source_ip, target_ip, filename) ==
    IF target_ip \notin ip_map THEN "TargetNotFound"
    ELSE IF source_ip = target_ip THEN "SelfTarget"
    ELSE IF filename \notin DOMAIN virtual_disk[source_ip] THEN "FileDoesNotExist"
    ELSE check_target_storage(target_ip, virtual_disk[source_ip][filename],
                              target_total_storage)

\* VirtualNode.send and VirtualNetwork.send_file up to the admission check
send(n, filename, target_ip) ==
    /\ CanCommand(n)
    /\ LET early == IF ~is_running[n] THEN "NotRunning"
                    ELSE send_file_checks(n, target_ip, filename)
       IN  IF early = "ok"
           THEN /\ admitted' = admitted + 1
                /\ snd' = [snd EXCEPT ![n] =
                             [pc |-> "connect", filename |-> filename, target |-> target_ip,
                              size |-> virtual_disk[n][filename],
                              chunk_count |-> 0, sent_bytes |-> 0]]
                /\ last' = Result(n, "send", filename, virtual_disk[n][filename],
                                  target_ip, "Admitted")
           ELSE /\ UNCHANGED <<snd, admitted>>
                /\ last' = Result(n, "send", filename, 0, target_ip, early)
    /\ UNCHANGED <<is_running, ftp_servers, virtual_disk, memory, metadata, storage, conn,
                   uploads>>

\* send_file: connect, login and the duplicate query
send_connect(n) ==
    /\ snd[n].pc = "connect"
    /\ LET t == snd[n].target
           f == snd[n].filename
       IN  IF ~Listening(t)
           THEN /\ snd' = [snd EXCEPT ![n] = Idle]
                /\ last' = Result(n, "send_connect", f, snd[n].size, t, "ErrorSending")
                /\ UNCHANGED conn
           ELSE IF f \in Nlst(t)
           THEN /\ snd' = [snd EXCEPT ![n] = Idle]
                /\ last' = Result(n, "send_connect", f, snd[n].size, t, "AlreadyExists")
                /\ UNCHANGED conn
           ELSE /\ snd' = [snd EXCEPT ![n].pc = "loop"]
                /\ conn' = [conn EXCEPT ![n] = NewHandler(t)]
                /\ last' = Result(n, "send_connect", f, snd[n].size, t, "Connected")
    /\ UNCHANGED <<is_running, ftp_servers, virtual_disk, memory, metadata, storage, admitted, uploads>>

\* the condition of send_file's while loop
MoreChunks(s) == s.chunk_count < num_chunks /\ s.sent_bytes < s.size

\* one iteration of the loop: frame the next chunk and upload it (STOR, then APPE)
send_chunk(n) ==
    /\ snd[n].pc = "loop"
    /\ conn[n].pending = None
    /\ MoreChunks(snd[n])
    /\ LET t == snd[n].target
           f == snd[n].filename
           chunk_count == snd[n].chunk_count + 1
           current_chunk_size == Min(ChunkSize(snd[n].size), snd[n].size - snd[n].sent_bytes)
           frame == MakeFrame(chunk_count, current_chunk_size)
       IN  IF ~Listening(t)
           THEN /\ snd' = [snd EXCEPT ![n] = Idle]
                /\ conn' = [conn EXCEPT ![n] = NoConn]
                /\ last' = Result(n, "send_chunk", f, snd[n].size, t, "ErrorSending")
                /\ UNCHANGED storage
           ELSE /\ storage' = [storage EXCEPT ![t] =
                      Put(@, f, IF chunk_count = 1 \/ f \notin DOMAIN @
                                THEN frame ELSE Concat(@[f], frame))]
                /\ conn' = [conn EXCEPT ![n].pending = f]
                /\ snd' = [snd EXCEPT ![n].chunk_count = chunk_count,
                                      ![n].sent_bytes = @ + current_chunk_size]
                /\ last' = Result(n, "send_chunk", f, current_chunk_size, t, "Uploaded")
    /\ UNCHANGED <<is_running, ftp_servers, virtual_disk, memory, metadata, admitted, uploads>>

\* a send that moves the file: on success the sender's entry is dropped
send_finish_move(n) ==
    /\ snd[n].pc = "loop"
    /\ conn[n].pending = None
    /\ ~MoreChunks(snd[n])
    /\ snd' = [snd EXCEPT ![n] = Idle]
    /\ conn' = [conn EXCEPT ![n] = NoConn]
    /\ virtual_disk' = [virtual_disk EXCEPT ![n] = Remove(@, snd[n].filename)]
    /\ last' = Result(n, "send_finish", snd[n].filename, snd[n].size, snd[n].target,
                      IF Listening(snd[n].target) THEN "Sent" ELSE "ErrorSending")
    /\ UNCHANGED <<is_running, ftp_servers, memory, metadata, storage, admitted, uploads>>

\* the loop is over: ftp.quit() and the success result
send_finish(n) ==
    /\ snd[n].pc = "loop"
    /\ conn[n].pending = None
    /\ ~MoreChunks(snd[n])
    /\ snd' = [snd EXCEPT ![n] = Idle]
    /\ conn' = [conn EXCEPT ![n] = NoConn]
    /\ last' = Result(n, "send_finish", snd[n].filename, snd[n].size, snd[n].target,
                      IF Listening(snd[n].target) THEN "Sent" ELSE "ErrorSending")
    /\ UNCHANGED <<is_running, ftp_servers, virtual_disk, memory, metadata, storage, admitted, uploads>>

\* ------------------------------------------------------------- FTP client
\* start_ftp_server gives the account user/password write access to the node's
\* storage root, so any FTP client may log in and upload.
client_login(t) ==
    /\ conn[Client] = NoConn
    /\ Listening(t)
    /\ conn' = [conn EXCEPT ![Client] = NewHandler(t)]
    /\ last' = Result(Client, "client_login", None, 0, t, "Connected")
    /\ UNCHANGED <<is_running, ftp_servers, virtual_disk, memory, metadata, storage, snd,
                   admitted, uploads>>

\* STOR file (create or replace) or APPE file (append, create when absent) of data
client_upload(mode, file, data) ==
    /\ conn[Client].target # None
    /\ conn[Client].pending = None
    /\ Listening(conn[Client].target)
    /\ uploads < MaxUploads
    /\ uploads' = uploads + 1
    /\ storage' = [storage EXCEPT ![conn[Client].target] =
          Put(@, file, IF mode = "STOR" \/ file \notin DOMAIN @
                       THEN data ELSE Concat(@[file], data))]
    /\ conn' = [conn EXCEPT ![Client].pending = file]
    /\ last' = Result(Client, "client_upload", file, ByteLen(data), conn[Client].target, mode)
    /\ UNCHANGED <<is_running, ftp_servers, virtual_disk, memory, metadata, snd, admitted>>

\* ------------------------------------------------------------ specification
\* Sizes in bytes the commands are tried with.  540000000 is more than half of
\* total_storage, and each of its five chunks has a header of header_size bytes
\* or more; touch checks size * MiB, so a touch of 1025 asks for more than 1 GiB.
BigSize == 540000000
TouchSizes == {-1, 0, 1024, 1025}
TruncSizes == {-1, 0}
MemVars == {<<"x">>, ResultVar}
SetValues == {<<"1">>, <<"a">>}
Instructions == {<<<<"A", "d", "d">>, <<"x">>, <<"x">>>>,
                 <<<<"a", "d", "d">>, <<"x">>, ResultVar>>,
                 <<<<"a", "d", "d">>, <<"x">>>>,
                 <<<<"s", "u", "b">>, <<"x">>, <<"x">>>>,
                 <<>>}

\* At most limit send calls pass the admission check; a send that returns an
\* error is always possible.
WithinSends(limit, n, filename, target_ip) ==
    \/ admitted < limit
    \/ ~is_running[n]
    \/ send_file_checks(n, target_ip, filename) # "ok"

\* Every node stays Running; both nodes create, resize and send files.
Next ==
    \/ \E n \in Nodes, f \in Files : touch(n, f, 0)
    \/ \E n \in Nodes, f \in Files, s \in {0, BigSize} : trunc(n, f, s)
    \/ \E n \in Nodes, f \in Files, t \in Nodes :
          WithinSends(MaxSends, n, f, t) /\ send(n, f, t)
    \/ \E n \in Nodes : send_connect(n)
    \/ \E n \in Nodes : send_chunk(n)
    \/ \E n \in Nodes : send_finish(n)
    \/ \E c \in Nodes : on_file_received(c)

Spec == Init /\ [][Next]_vars

\* The command surface of one node, with its lifecycle and memory; the other
\* node is constructed and listens.
Commander == "192.168.1.1"

NextCmd ==
    \/ start(Commander)
    \/ stop(Commander)
    \/ ls(Commander)
    \/ \E f \in Files, s \in TouchSizes : touch(Commander, f, s)
    \/ \E f \in Files, s \in TruncSizes : trunc(Commander, f, s)
    \/ \E v \in MemVars, x \in SetValues : set_var(Commander, v, x)
    \/ \E v \in MemVars : get_var(Commander, v)
    \/ \E i \in Instructions : execute_instruction(Commander, i)
    \/ \E f \in Files, t \in Targets :
          WithinSends(MaxSends, Commander, f, t) /\ send(Commander, f, t)
    \/ send_connect(Commander)
    \/ send_chunk(Commander)
    \/ send_finish(Commander)
    \/ on_file_received(Commander)

SpecCmd == Init /\ [][NextCmd]_vars

\* One transfer end to end: the sender is constructed over a disk_path that
\* holds a.bin of some length and sends it to a freshly constructed receiver.
Sender == "192.168.1.1"
Receiver == "192.168.1.2"
LongBase == 5000000
Lengths == (0..MaxLen) \cup {LongBase + k : k \in 0..MaxLen}

InitXfer ==
    \E L \in Lengths :
        InitOver([n \in Nodes |-> IF n = Sender THEN Put(Empty, "a.bin", Zeros(L))
                                  ELSE Empty])

NextXfer ==
    \/ WithinSends(MaxSends, Sender, "a.bin", Receiver) /\ send(Sender, "a.bin", Receiver)
    \/ send_connect(Sender)
    \/ send_chunk(Sender)
    \/ send_finish(Sender)
    \/ on_file_received(Sender)

SpecXfer == InitXfer /\ [][NextXfer]_vars

\* Transfers one after the other, nothing concurrent with an admission check:
\* the sender is constructed over a.bin and b.bin of BigSize \div 2 bytes each,
\* the receiver over its own c.bin of BigSize bytes, and the receiver's user
\* touches and shrinks c.bin.
LocalFile == "c.bin"

InitSeq ==
    InitOver([n \in Nodes |->
                IF n = Sender
                THEN Put(Put(Empty, "a.bin", Zeros(BigSize \div 2)),
                         "b.bin", Zeros(BigSize \div 2))
                ELSE Put(Empty, LocalFile, Zeros(BigSize))])

NextSeq ==
    \/ \E f \in Files :
          WithinSends(MaxSeqSends, Sender, f, Receiver) /\ send(Sender, f, Receiver)
    \/ send_connect(Sender)
    \/ send_chunk(Sender)
    \/ send_finish(Sender)
    \/ on_file_received(Sender)
    \/ touch(Receiver, LocalFile, 0)
    \/ trunc(Receiver, LocalFile, BigSize - 1)

SpecSeq == InitSeq /\ [][NextSeq]_vars

\* The receiver alone: an FTP client uploads frames in any order.  FramePayload
\* bytes of payload make a header of exactly header_size bytes.
FramePayload == 1000000

NextRecv ==
    \/ client_login(Receiver)
    \/ \E mode \in {"STOR", "APPE"}, f \in Files, k \in 1..num_chunks :
          client_upload(mode, f, MakeFrame(k, FramePayload))
    \/ on_file_received(Client)

SpecRecv == Init /\ [][NextRecv]_vars

\* Single frames at the receiver: an FTP client uploads, over a.bin, frames as
\* send_file builds them (payloads of 0, FramePayload - 1 and FramePayload bytes)
\* and objects that are no valid frame: header_size bytes without a header, a
\* header cut before its length field, and a frame one byte short of the
\* length its header declares.
MaxFrameUploads == 3
PayloadLens == {0, FramePayload - 1, FramePayload}
NoHeader == Zeros(header_size)
CutHeader == LJust(Encode(<<"C", "H", "U", "N", "K", ":", "2", ":">>), header_size, NUL)
ShortFrame == Concat(MakeHeader(2, FramePayload), Zeros(FramePayload - 1))
BadFrames == {NoHeader, CutHeader, ShortFrame}

NextFrame ==
    \/ client_login(Receiver)
    \/ \E mode \in {"STOR", "APPE"}, k \in 1..num_chunks, p \in PayloadLens :
          uploads < MaxFrameUploads /\ client_upload(mode, "a.bin", MakeFrame(k, p))
    \/ \E mode \in {"STOR", "APPE"}, d \in BadFrames :
          uploads < MaxFrameUploads /\ client_upload(mode, "a.bin", d)
    \/ on_file_received(Client)

SpecFrame == Init /\ [][NextFrame]_vars

\* Two uploaders at one receiver: the sender transfers a.bin of LongBase bytes
\* while an FTP client uploads the first frames of a transfer of a.bin or b.bin
\* the way send_file does (STOR for frame 1, APPE after).
InitConc ==
    InitOver([n \in Nodes |-> IF n = Sender THEN Put(Empty, "a.bin", Zeros(LongBase))
                              ELSE Empty])

NextConc ==
    \/ WithinSends(MaxSends, Sender, "a.bin", Receiver) /\ send(Sender, "a.bin", Receiver)
    \/ send_connect(Sender)
    \/ send_chunk(Sender)
    \/ send_finish(Sender)
    \/ on_file_received(Sender)
    \/ client_login(Receiver)
    \/ \E f \in Files, k \in 1..2 :
          /\ uploads < MaxFrameUploads
          /\ client_upload(IF k = 1 THEN "STOR" ELSE "APPE", f, MakeFrame(k, FramePayload))
    \/ on_file_received(Client)

SpecConc == InitConc /\ [][NextConc]_vars

\* Every outcome of send: the sender holds a.bin of LongBase bytes and not b.bin,
\* names any target, and is stopped and started; the receiver's user makes an
\* a.bin of its own, grows it to the whole capacity, and stops the receiver.
NextCopy ==
    \/ start(Sender)
    \/ stop(Sender)
    \/ \E f \in Files, t \in Targets :
          WithinSends(MaxSends, Sender, f, t) /\ send(Sender, f, t)
    \/ send_connect(Sender)
    \/ send_chunk(Sender)
    \/ send_finish(Sender)
    \/ on_file_received(Sender)
    \/ touch(Receiver, "a.bin", 0)
    \/ trunc(Receiver, "a.bin", total_storage)
    \/ stop(Receiver)

SpecCopy == InitConc /\ [][NextCopy]_vars

\* ------------------------------------------------------------------ claims
\* everything but the record of the last step
state == <<is_running, ftp_servers, virtual_disk, memory, metadata, storage, snd, conn,
           admitted, uploads>>

\* C1: the capacity invariant.  On every node the sizes recorded in the
\* VirtualDisk sum to at most the node's capacity, in every reachable state.
C1_CapacityInvariant ==
    \A n \in Nodes : DiskSum(virtual_disk[n]) <= total_storage

\* C2: reassembly.  Every frame the sender builds for a file of L >= 0 bytes and
\* delivers in order is folded into the receiver's buffer, which then holds the
\* bytes sent so far; after the last of them the receiver holds the L bytes.
C2_Reassembly ==
    [][last'.op = "on_file_received"
       => LET c == last'.target
              t == last'.node
              f == last'.file
          IN  \/ /\ last'.res = "Accepted"
                 /\ TempName(f) \in DOMAIN storage'[t]
                 /\ storage'[t][TempName(f)] = Zeros(snd[c].sent_bytes)
              \/ /\ last'.res = "Finalized"
                 /\ snd[c].sent_bytes = snd[c].size
                 /\ virtual_disk'[t][f] = snd[c].size]_vars

\* C3: ordering.  A frame for the session's filename whose sequence number is
\* not the expected one aborts the session and discards its buffer.
C3_OrderingEnforced ==
    [][(last'.op = "on_file_received" /\ last'.res = "OutOfOrder")
       => /\ conn'[last'.target].current_filename = None
          /\ conn'[last'.target].received_chunks = 0
          /\ TempName(last'.file) \notin DOMAIN storage'[last'.node]]_vars

\* C4 as stated: a send by a Running node of a file it holds, to another node
\* whose storage listing already contains the filename, never returns anything
\* but the duplicate error: the call goes on to the duplicate query.
C4_DuplicateWhenListed ==
    [][(/\ last'.op = "send"
        /\ is_running[last'.node]
        /\ last'.file \in DOMAIN virtual_disk[last'.node]
        /\ last'.target \in Nodes \ {last'.node}
        /\ last'.file \in DOMAIN storage[last'.target])
       => last'.res = "Admitted"]_vars

\* C4 amended: such a send first runs the admission check and returns the
\* capacity error when used + size exceeds the capacity; when it is admitted and
\* the listing contains the filename at the duplicate query it returns the
\* duplicate error.  Either way no frame is sent and no disk, storage, session or
\* metadata changes.
C4_DuplicateAfterAdmission ==
    [][/\ (/\ last'.op = "send"
           /\ is_running[last'.node]
           /\ last'.file \in DOMAIN virtual_disk[last'.node]
           /\ last'.target \in Nodes \ {last'.node}
           /\ ftp_servers[last'.target]
           /\ last'.file \in DOMAIN storage[last'.target])
          => /\ last'.res = IF UsedStorage(last'.target)
                                  + virtual_disk[last'.node][last'.file]
                                    <= target_total_storage
                            THEN "Admitted" ELSE "NotEnoughStorageOnTarget"
             /\ UNCHANGED <<is_running, ftp_servers, virtual_disk, memory, metadata,
                            storage, conn>>
       /\ (/\ last'.op = "send_connect"
           /\ ftp_servers[snd[last'.node].target]
           /\ snd[last'.node].filename \in DOMAIN storage[snd[last'.node].target])
          => /\ last'.res = "AlreadyExists"
             /\ snd'[last'.node] = Idle
             /\ UNCHANGED <<is_running, ftp_servers, virtual_disk, memory, metadata,
                            storage, conn>>]_vars

\* a send was refused by the duplicate query
C4_Witness == last.op = "send_connect" /\ last.res = "AlreadyExists"

\* C5: touch of a file that is already in the disk of a Running node changes no
\* disk entry and returns the "updated timestamp" result, whatever the size.
C5_IdempotentTouch ==
    [][(/\ last'.op = "touch"
        /\ is_running[last'.node]
        /\ last'.file \in DOMAIN virtual_disk[last'.node])
       => /\ virtual_disk' = virtual_disk
          /\ last'.res = "UpdatedTimestamp"]_vars

\* C6: touch of an absent file with size >= 0 on a Running node creates the entry
\* exactly when sum(existing sizes) + size <= capacity, size counted in bytes, and
\* otherwise returns the capacity error and leaves the disk unchanged.
C6_TouchAdmission ==
    [][(/\ last'.op = "touch"
        /\ is_running[last'.node]
        /\ last'.file \notin DOMAIN virtual_disk[last'.node]
        /\ last'.size >= 0)
       => IF DiskSum(virtual_disk[last'.node]) + last'.size <= total_storage
          THEN /\ last'.res = "Created"
               /\ virtual_disk' = [virtual_disk EXCEPT ![last'.node] =
                                      Put(@, last'.file, last'.size)]
          ELSE /\ last'.res = "NotEnoughStorage"
               /\ virtual_disk' = virtual_disk]_vars

\* C7: on a Running node trunc of a present file to a size no larger than its
\* current size always succeeds and records that size; trunc of an absent file
\* returns the not-found result and leaves the disk unchanged.
C7_ShrinkingTrunc ==
    [][/\ (/\ last'.op = "trunc"
           /\ is_running[last'.node]
           /\ last'.file \in DOMAIN virtual_disk[last'.node]
           /\ 0 <= last'.size
           /\ last'.size <= virtual_disk[last'.node][last'.file])
          => /\ last'.res = "Truncated"
             /\ virtual_disk'[last'.node][last'.file] = last'.size
       /\ (/\ last'.op = "trunc"
           /\ is_running[last'.node]
           /\ last'.size >= 0
           /\ last'.file \notin DOMAIN virtual_disk[last'.node])
          => /\ last'.res = "FileDoesNotExist"
             /\ virtual_disk' = virtual_disk]_vars

\* C8: on a Stopped node list, touch, trunc, setVar, getVar, execute and send
\* return the not-running error and change nothing on any node.
CommandOps == {"ls", "touch", "trunc", "set_var", "get_var", "execute", "send"}

C8_StoppedNodeRefuses ==
    [][(last'.op \in CommandOps /\ ~is_running[last'.node])
       => (last'.res = "NotRunning" /\ UNCHANGED state)]_vars

\* a stopped node was asked to send
C8_Witness ==
    /\ last.op = "send" /\ last.res = "NotRunning"
    /\ ~is_running[last.node]
    /\ last.file \in DOMAIN virtual_disk[last.node]

\* C9: start on a Running node and stop on a Stopped node change no state; stop
\* on a Running node leaves it Stopped with the persisted metadata equal to the
\* disk and the listener released; start on a Stopped node leaves it Running.
C9_Lifecycle ==
    [][/\ (last'.op = "start" /\ is_running[last'.node])
          => (last'.res = "AlreadyRunning" /\ UNCHANGED state)
       /\ (last'.op = "stop" /\ ~is_running[last'.node])
          => (last'.res = "AlreadyStopped" /\ UNCHANGED state)
       /\ (last'.op = "stop" /\ is_running[last'.node])
          => /\ ~is_running'[last'.node]
             /\ metadata'[last'.node] = virtual_disk'[last'.node]
             /\ ~ftp_servers'[last'.node]
             /\ UNCHANGED <<virtual_disk, memory, storage, snd, conn>>
       /\ (last'.op = "start" /\ ~is_running[last'.node])
          => /\ is_running'[last'.node]
             /\ UNCHANGED <<virtual_disk, memory, metadata, storage, snd, conn>>]_vars

\* a node holding a file was stopped and started again
C9_Witness ==
    /\ last.op = "start" /\ last.res = "Started"
    /\ is_running[last.node]
    /\ DOMAIN virtual_disk[last.node] # {}

\* C10: send to the node's own address returns the self-target error for every
\* filename, present on the sender or not, and changes nothing: no admission
\* query is made and no frame is sent.
C10_SelfTarget ==
    [][(/\ last'.op = "send"
        /\ is_running[last'.node]
        /\ last'.target = last'.node)
       => (last'.res = "SelfTarget" /\ UNCHANGED state)]_vars

\* a Running node was asked to send itself a file it does not hold
C10_Witness ==
    /\ last.op = "send" /\ last.res = "SelfTarget"
    /\ last.target = last.node
    /\ is_running[last.node]
    /\ last.file \notin DOMAIN virtual_disk[last.node]

\* C11: the chunking rule.  A send of a file of L > 0 bytes uploads exactly
\* num_chunks frames, numbered 1, 2, ... in that order; each frame before the
\* last carries ceil(L / num_chunks) bytes and the last carries the remainder.
C11_ChunkingRule ==
    [][/\ (last'.op = "send_chunk" /\ last'.res = "Uploaded")
          => LET n == last'.node
                 L == snd[n].size
             IN  /\ snd'[n].chunk_count = snd[n].chunk_count + 1
                 /\ last'.size = IF snd'[n].chunk_count < num_chunks
                                 THEN ChunkSize(L)
                                 ELSE L - (num_chunks - 1) * ChunkSize(L)
       /\ (last'.op = "send_finish" /\ last'.res = "Sent" /\ last'.size > 0)
          => snd[last'.node].chunk_count = num_chunks]_vars

\* C12: the zero-length transfer.  A send of a file of 0 bytes uploads exactly
\* one frame, and when the send is over the target's disk holds the filename
\* with size 0.
C12_ZeroLength ==
    [][(last'.op = "send_finish" /\ last'.res = "Sent" /\ last'.size = 0)
       => /\ snd[last'.node].chunk_count = 1
          /\ last'.file \in DOMAIN virtual_disk'[last'.target]
          /\ virtual_disk'[last'.target][last'.file] = 0]_vars

\* C13: errors are values.  Every list, touch, trunc, setVar, getVar, execute
\* and send returns a result to its caller; none raises an exception.
C13_ErrorsAreValues ==
    [][last'.op \in CommandOps => last'.res # "Raised"]_vars

\* C14: execute add.  On a Running node, add a b (the opcode in any case) with a
\* and b in memory stores the sum of their values before the call into
\* memory["result"], also when an operand is result itself, and changes no other
\* variable; every other instruction leaves memory unchanged and returns an
\* error result.
AddSpellings ==
    {<<x, y, z>> : x \in {"a", "A"}, y \in {"d", "D"}, z \in {"d", "D"}}

C14_ExecuteAdd ==
    [][(last'.op = "execute" /\ is_running[last'.node])
       => LET n == last'.node
              parts == last'.file
          IN  IF /\ Len(parts) = 3
                 /\ parts[1] \in AddSpellings
                 /\ parts[2] \in DOMAIN memory[n]
                 /\ parts[3] \in DOMAIN memory[n]
              THEN /\ last'.res = "Added"
                   /\ last'.size = memory[n][parts[2]] + memory[n][parts[3]]
                   /\ memory' = [memory EXCEPT ![n] =
                         [v \in (DOMAIN memory[n]) \cup {ResultVar} |->
                             IF v = ResultVar
                             THEN memory[n][parts[2]] + memory[n][parts[3]]
                             ELSE memory[n][v]]]
              ELSE /\ last'.res \in {"NoInstruction", "UnknownInstruction", "Usage",
                                     "VariablesNotFound"}
                   /\ memory' = memory]_vars

\* an add whose operand is result itself overwrote result with the sum
C14_Witness ==
    /\ last.op = "execute" /\ last.res = "Added"
    /\ last.file[3] = ResultVar
    /\ last.size >= 3
    /\ memory[last.node][ResultVar] = last.size

\* C15: the frame round trip.  A stored object that is the frame send_file
\* builds for sequence number k and a payload of p bytes passes the receiver's
\* header parse and length check and is decoded as sequence k with exactly the
\* p payload bytes; the padding of the header is not counted as payload.
C15_FrameRoundTrip ==
    [][last'.op = "on_file_received"
       => \A k \in 1..num_chunks, p \in PayloadLens :
             (/\ last'.file \in DOMAIN storage[last'.node]
              /\ storage[last'.node][last'.file] = MakeFrame(k, p))
             => LET data == storage[last'.node][last'.file]
                    match == HeaderMatch(data)
                IN  /\ match.ok
                    /\ match.chunk_number = k
                    /\ DropBytes(data, match.end) = Zeros(p)
                    /\ last'.res \notin {"InvalidHeader", "SizeMismatch"}]_vars

\* C16: finalization.  When the callback for the last chunk of a session has
\* returned, the target's storage root holds an object named filename with the
\* accumulated buffer, disk[filename] is that object's size, the persisted
\* metadata equals the disk and the handler holds no session.
C16_Finalization ==
    [][(last'.op = "on_file_received" /\ last'.res = "Finalized")
       => LET t == last'.node
              f == last'.file
              c == last'.target
              buffer == Concat(storage[t][TempName(f)],
                               DropBytes(storage[t][f], HeaderMatch(storage[t][f]).end))
          IN  /\ f \in DOMAIN storage'[t]
              /\ storage'[t][f] = buffer
              /\ virtual_disk'[t][f] = ByteLen(storage'[t][f])
              /\ metadata'[t] = virtual_disk'[t]
              /\ conn'[c].current_filename = None
              /\ conn'[c].received_chunks = 0
              /\ conn'[c].temp_file_path = None
              /\ TempName(f) \notin DOMAIN storage'[t]]_vars

\* C17: transfers never overwrite.  Once the target's disk holds an entry for
\* the filename, no send of that filename gets as far as uploading a frame, and
\* no receive callback changes the entry.
C17_NeverOverwrite ==
    [][/\ (/\ last'.op = "send_connect"
           /\ snd[last'.node].filename \in DOMAIN virtual_disk[snd[last'.node].target])
          => last'.res # "Connected"
       /\ (/\ last'.op = "on_file_received"
           /\ last'.file \in DOMAIN virtual_disk[last'.node])
          => virtual_disk'[last'.node][last'.file] = virtual_disk[last'.node][last'.file]]_vars

\* C18: frame cleanup.  When the receive callback for a frame has returned,
\* whatever its outcome, the raw frame object is no longer in the receiver's
\* storage root.
C18_FrameCleanup ==
    [][last'.op = "on_file_received"
       => last'.file \notin DOMAIN storage'[last'.node]]_vars

\* C19: invalid frames do not touch the session.  A frame rejected for its
\* header or its length leaves the handler's session, its buffer and the disk as
\* they were; and when the client's next upload is the frame the session
\* expects, with a payload of FramePayload bytes, that frame is accepted.
C19_InvalidFramesIgnored ==
    [][last'.op = "on_file_received"
       => LET t == last'.node
              f == last'.file
              c == last'.target
              h == conn[c]
              delivered == DropBytes(storage[t][f], ByteLen(storage[t][f]) - last.size)
          IN  /\ last'.res \in {"InvalidHeader", "SizeMismatch"}
                 => /\ conn'[c].current_filename = h.current_filename
                    /\ conn'[c].received_chunks = h.received_chunks
                    /\ conn'[c].temp_file_path = h.temp_file_path
                    /\ virtual_disk' = virtual_disk
                    /\ \A x \in DOMAIN storage[t] \ {f} :
                          x \in DOMAIN storage'[t] /\ storage'[t][x] = storage[t][x]
              /\ (/\ h.current_filename = f
                  /\ last.op = "client_upload"
                  /\ f \in DOMAIN storage[t]
                  /\ delivered = MakeFrame(h.received_chunks + 1, FramePayload))
                 => last'.res \in {"Accepted", "Finalized"}]_vars

\* C20: a single session per receiver.  Over all the connections to a node's
\* FTP server, at most one holds a transfer session in progress.
C20_SingleSession ==
    \A t \in Nodes :
        Cardinality({c \in Clients : conn[c].target = t
                                     /\ conn[c].current_filename # None}) <= 1

\* C21: remote admission.  A send by a Running node of a file it holds, to
\* another node whose listener is up, sums the sizes of the objects in the
\* target's storage root; it is admitted exactly when used + size is within the
\* target capacity and otherwise returns the capacity error, sends no frame and
\* changes nothing.  Either way the target's storage, sessions and disk are
\* unchanged by the call.
C21_RemoteAdmission ==
    [][(/\ last'.op = "send"
        /\ is_running[last'.node]
        /\ last'.target \in Nodes \ {last'.node}
        /\ last'.file \in DOMAIN virtual_disk[last'.node]
        /\ ftp_servers[last'.target])
       => LET t == last'.target
              size == virtual_disk[last'.node][last'.file]
              used == SumOver([x \in DOMAIN storage[t] |-> ByteLen(storage[t][x])],
                              DOMAIN storage[t])
          IN  /\ last'.res = IF used + size <= target_total_storage
                             THEN "Admitted" ELSE "NotEnoughStorageOnTarget"
              /\ last'.res = "NotEnoughStorageOnTarget" => UNCHANGED state
              /\ UNCHANGED <<storage, conn, virtual_disk, metadata, memory>>]_vars

\* a send was refused because the objects listed at the target left no room
C21_Witness ==
    /\ last.op = "send" /\ last.res = "NotEnoughStorageOnTarget"
    /\ last.target \in Nodes
    /\ DOMAIN storage[last.target] # {}
    /\ snd[last.node] = Idle

\* C22: the admission TOCTOU.  While a transfer admitted towards a node is in
\* flight, a touch or trunc on that node is decided by the node's disk alone, and
\* the callback for the last chunk records the file without any capacity check;
\* so an admission that passed, a local trunc accepted after it and the finalize
\* can together leave the node over capacity.
C22_AdmissionNotAtomic ==
    [][LET t == last'.node
           f == last'.file
           InFlight == \E n \in Nodes : snd[n].pc # "idle" /\ snd[n].target = t
       IN  /\ (/\ last'.op = "trunc" /\ is_running[t] /\ InFlight
               /\ last'.size >= 0
               /\ f \in DOMAIN virtual_disk[t])
              => last'.res = IF DiskSum(virtual_disk[t]) + last'.size - virtual_disk[t][f]
                                  <= total_storage
                             THEN "Truncated" ELSE "NotEnoughStorage"
           /\ (/\ last'.op = "touch" /\ is_running[t] /\ InFlight
               /\ last'.size >= 0
               /\ f \notin DOMAIN virtual_disk[t])
              => last'.res = IF DiskSum(virtual_disk[t]) + last'.size * MiB <= total_storage
                             THEN "Created" ELSE "NotEnoughStorage"
           /\ (/\ last'.op = "on_file_received"
               /\ last'.res \in {"Accepted", "Finalized"}
               /\ conn[last'.target].received_chunks = expected_chunks - 1
               /\ conn[last'.target].current_filename = f
               /\ HeaderMatch(storage[t][f]).chunk_number = expected_chunks)
              => /\ last'.res = "Finalized"
                 /\ f \in DOMAIN virtual_disk'[t]
                 /\ \A g \in DOMAIN virtual_disk[t] \ {f} :
                       virtual_disk'[t][g] = virtual_disk[t][g]]_vars

\* the only transfer ever admitted was finalized and left the target over
\* capacity, next to a file the target's own trunc made
C22_Witness ==
    /\ last.op = "on_file_received" /\ last.res = "Finalized"
    /\ admitted = 1
    /\ DiskSum(virtual_disk[last.node]) > total_storage
    /\ \E g \in DOMAIN storage[last.node] :
          /\ g # last.file
          /\ g \in DOMAIN virtual_disk[last.node]
          /\ ByteLen(storage[last.node][g]) = virtual_disk[last.node][g]
          /\ virtual_disk[last.node][g] > 0

\* C23: end-to-end delivery.  When send returns its success result, the only
\* transfer towards the target being this one, the target's disk holds the
\* filename with the size sent and the handler of the connection holds no
\* session.
C23_EndToEndDelivery ==
    [][(last'.op = "send_finish" /\ last'.res = "Sent")
       => /\ last'.file \in DOMAIN virtual_disk'[last'.target]
          /\ virtual_disk'[last'.target][last'.file] = last'.size
          /\ conn[last'.node].current_filename = None
          /\ conn[last'.node].received_chunks = 0]_vars

\* C24: disk/storage consistency.  When no send is in progress, no upload
\* awaits its callback and no session is open, the objects in each node's
\* storage root are exactly the filenames of its disk, each with the size the
\* disk records.
Quiescent ==
    /\ \A n \in Nodes : snd[n].pc = "idle"
    /\ \A c \in Clients : conn[c].pending = None /\ conn[c].current_filename = None

C24_DiskStorageConsistency ==
    Quiescent
    => \A n \in Nodes :
          /\ DOMAIN storage[n] = DOMAIN virtual_disk[n]
          /\ \A f \in DOMAIN storage[n] : ByteLen(storage[n][f]) = virtual_disk[n][f]

\* C25: the listener follows the lifecycle.  After construction and any start
\* and stop calls, a node that is Running has its FTP server listening.
C25_ListenerFollowsLifecycle ==
    \A n \in Nodes : is_running[n] => ftp_servers[n]

\* C26: send is a copy.  No step of a send, whatever its outcome, changes the
\* sender's disk, memory or running state.
SendOps == {"send", "send_connect", "send_chunk", "send_finish"}

C26_SendIsACopy ==
    [][last'.op \in SendOps
       => /\ virtual_disk'[last'.node] = virtual_disk[last'.node]
          /\ memory'[last'.node] = memory[last'.node]
          /\ is_running'[last'.node] = is_running[last'.node]]_vars

\* a send failed in the middle of the transfer and the sender still holds the file
C26_Witness ==
    /\ last.op = "send_chunk" /\ last.res = "ErrorSending"
    /\ last.file \in DOMAIN virtual_disk[last.node]
    /\ virtual_disk[last.node][last.file] = last.size
    /\ is_running[last.node]

====
